---- MODULE Spec2Model ----
(***************************************************************************)
(* Model of the mathparser crate: the Tokenizer (parse_math/token.rs), the *)
(* precedence-climbing Parser (parse_math/parser.rs) and the values they   *)
(* exchange (Token, OperationPrecedence, Node, ParseError).                *)
(*                                                                         *)
(* A character is a string of length one; an input is a sequence of        *)
(* characters.  The recursive functions ast/number/operation run on an     *)
(* explicit call stack, one action per straight-line piece of code between *)
(* two calls.                                                              *)
(***************************************************************************)
EXTENDS Integers, Sequences, FiniteSets, TLC

VARIABLES
    input,    \* the &str handed to Parser::new / Tokenizer::new
    chars,    \* Tokenizer.chars: the characters not read yet (whitespace filtered)
    peeked,   \* the lookahead slot of Peekable<Tokenizer>: <<>> or <<item>>
    stack,    \* the call stack of ast/number/operation (top is the last frame)
    ret,      \* the Result the callee just returned: <<>> or <<result>>
    pc,       \* "idle" | "running" | "panic" | "tokens"
    steps,    \* pieces of parser code run in the current parse() call
    hist,     \* the parse() calls that returned: input, result, lookahead left
    reads     \* what a direct client of the tokenizer got from next()/peek()

vars == <<input, chars, peeked, stack, ret, pc, steps, hist, reads>>

(***************************************************************************)
(* Bounds of the model.                                                    *)
(***************************************************************************)
MaxLen == 3          \* every string over the alphabets up to this length is an input
MaxOperands == 3     \* operator chains have up to this many operands
MaxLiteralLen == 5   \* digit/point runs up to this length are inputs
MaxReads == 4        \* reads a direct client makes of one tokenizer
MaxSteps == 100      \* cap of the step counter of one parse() call

(***************************************************************************)
(* OperationPrecedence: #[derive(PartialOrd)] orders the variants by       *)
(* declaration order.                                                      *)
(***************************************************************************)
Default == 0
AddSub == 1
MulDiv == 2
Power == 3

(***************************************************************************)
(* Characters.                                                             *)
(***************************************************************************)
AsciiDigits == {"0", "1", "2", "3", "4", "5", "6", "7", "8", "9"}

\* char::is_ascii_whitespace: space, tab, line feed, form feed, carriage return
is_ascii_whitespace(c) == c \in {" ", "\t", "\n", "\f", "\r"}

\* char::is_numeric: the Unicode categories Nd, Nl, No; beyond the ASCII
\* digits the model carries one such character, superscript two
is_numeric(c) == c \in AsciiDigits \cup {"²"}

DigitValue(c) ==
    CASE c = "0" -> 0 [] c = "1" -> 1 [] c = "2" -> 2 [] c = "3" -> 3
      [] c = "4" -> 4 [] c = "5" -> 5 [] c = "6" -> 6 [] c = "7" -> 7
      [] c = "8" -> 8 [] c = "9" -> 9

\* Tokenizer::new: expression.chars().filter(|c| !c.is_ascii_whitespace())
Filter(s) == SelectSeq(s, LAMBDA c : ~is_ascii_whitespace(c))

(***************************************************************************)
(* f64 values of literals.  A literal of digits and at most one point is   *)
(* the decimal n / 10^e, kept normalised (no trailing zero in the          *)
(* fraction), so that "1", "1." and "1.0" are the same value.              *)
(***************************************************************************)
RECURSIVE Normalise(_, _)
Normalise(n, e) ==
    IF e > 0 /\ n % 10 = 0 THEN Normalise(n \div 10, e - 1) ELSE [n |-> n, e |-> e]

Zero == [n |-> 0, e |-> 0]

\* the number the first k characters of a digit string spell
RECURSIVE DigitsValue(_, _)
DigitsValue(s, k) ==
    IF k = 0 THEN 0 ELSE 10 * DigitsValue(s, k - 1) + DigitValue(s[k])

Points(s) == {i \in 1..Len(s) : s[i] = "."}

\* str::parse::<f64> on a run of numeric characters and points that starts
\* with an ASCII digit: Err(ParseFloatError) on a non-ASCII digit or a
\* second point
ParseF64(s) ==
    IF (\E i \in 1..Len(s) : s[i] # "." /\ s[i] \notin AsciiDigits)
       \/ Cardinality(Points(s)) > 1
    THEN [ok |-> FALSE, value |-> Zero]
    ELSE LET fraction == IF Points(s) = {} THEN 0
                         ELSE Len(s) - (CHOOSE i \in Points(s) : TRUE)
             digits == SelectSeq(s, LAMBDA c : c # ".")
         IN  [ok |-> TRUE, value |-> Normalise(DigitsValue(digits, Len(digits)), fraction)]

(***************************************************************************)
(* Token, and the items a read of the tokenizer yields: Some(token), None, *)
(* or the panic of unwrap().                                               *)
(***************************************************************************)
Tok(kind) == [kind |-> kind, value |-> Zero]
NumberTok(v) == [kind |-> "Number", value |-> v]
EOF == Tok("EOF")
None == Tok("None")
Panic == Tok("Panic")

\* Caret left out of its own arm: it falls in with Asterisk and Slash
operation_precedence_caret(t) ==
    CASE t.kind \in {"Plus", "Minus"} -> AddSub
      [] t.kind \in {"Asterisk", "Slash", "LeftParenthesis", "Caret"} -> MulDiv
      [] OTHER -> Default

\* RightParenthesis listed beside LeftParenthesis
operation_precedence_rparen(t) ==
    CASE t.kind \in {"Plus", "Minus"} -> AddSub
      [] t.kind \in {"Asterisk", "Slash", "LeftParenthesis", "RightParenthesis"} -> MulDiv
      [] t.kind = "Caret" -> Power
      [] OTHER -> Default

\* LeftParenthesis left to the catch-all arm
operation_precedence_lparen(t) ==
    CASE t.kind \in {"Plus", "Minus"} -> AddSub
      [] t.kind \in {"Asterisk", "Slash"} -> MulDiv
      [] t.kind = "Caret" -> Power
      [] OTHER -> Default

\* Token::operation_precedence
operation_precedence(t) ==
    CASE t.kind \in {"Plus", "Minus"} -> AddSub
      [] t.kind \in {"Asterisk", "Slash", "LeftParenthesis"} -> MulDiv
      [] t.kind = "Caret" -> Power
      [] OTHER -> Default

\* the length of the longest prefix of cs made of numeric characters and points
RECURSIVE NumberRun(_)
NumberRun(cs) ==
    IF cs # <<>> /\ (is_numeric(Head(cs)) \/ Head(cs) = ".")
    THEN 1 + NumberRun(Tail(cs))
    ELSE 0

\* Tokenizer::token: the item produced and the characters left
token(cs) ==
    IF cs = <<>> THEN [tok |-> EOF, rest |-> <<>>]
    ELSE LET c == Head(cs) IN
         IF c \in AsciiDigits
         THEN LET k == NumberRun(Tail(cs))
                  parsed == ParseF64(SubSeq(cs, 1, k + 1))
              IN  [tok |-> IF parsed.ok THEN NumberTok(parsed.value) ELSE Panic,
                   rest |-> SubSeq(cs, k + 2, Len(cs))]
         ELSE [tok |-> CASE c = "+" -> Tok("Plus")
                         [] c = "-" -> Tok("Minus")
                         [] c = "*" -> Tok("Asterisk")
                         [] c = "/" -> Tok("Slash")
                         [] c = "^" -> Tok("Caret")
                         [] c = "(" -> Tok("LeftParenthesis")
                         [] c = ")" -> Tok("RightParenthesis")
                         [] OTHER -> None,
               rest |-> Tail(cs)]

(***************************************************************************)
(* std::iter::Peekable over the tokenizer: peek() fills the slot with the  *)
(* next item (None included), next() empties the slot or, when it is       *)
(* empty, asks the tokenizer.                                              *)
(***************************************************************************)
\* next() that hands out the slot and leaves it filled
PeekableNextKeeps(cs, pk) ==
    IF pk # <<>>
    THEN [tok |-> pk[1], chars |-> cs, peeked |-> pk]
    ELSE LET r == token(cs) IN [tok |-> r.tok, chars |-> r.rest, peeked |-> <<>>]

PeekableNext(cs, pk) ==
    IF pk # <<>>
    THEN [tok |-> pk[1], chars |-> cs, peeked |-> <<>>]
    ELSE LET r == token(cs) IN [tok |-> r.tok, chars |-> r.rest, peeked |-> <<>>]

PeekablePeek(cs, pk) ==
    IF pk # <<>>
    THEN [tok |-> pk[1], chars |-> cs, peeked |-> pk]
    ELSE LET r == token(cs) IN [tok |-> r.tok, chars |-> r.rest, peeked |-> <<r.tok>>]

(***************************************************************************)
(* Node (ast.rs) and Result<Node, ParseError> (errors.rs).                 *)
(***************************************************************************)
Nil == <<"Nil">>
Element(v) == <<"Element", v>>
Negative(n) == <<"Negative", n>>
Binary(op, l, r) == <<op, l, r>>

\* format!("{:?}", token): the variant's name, with the value for a Number
Debug(t) == IF t.kind = "Number" THEN <<"Number", t.value>> ELSE <<t.kind>>

Ok(n) == [kind |-> "Ok", node |-> n, err |-> "", msg |-> <<>>]
Err(e, m) == [kind |-> "Err", node |-> Nil, err |-> e, msg |-> m]

ParenthesisNotBalanced == Err("ParenthesisNotBalanced", <<>>)

\* the Node variant operation() builds for a binary operator token
NodeOf(t) ==
    CASE t.kind = "Plus" -> "Sum"
      [] t.kind = "Minus" -> "Subtract"
      [] t.kind = "Asterisk" -> "Multiply"
      [] t.kind = "Slash" -> "Divide"
      [] t.kind = "Caret" -> "Power"

BinaryTokens == {"Plus", "Minus", "Asterisk", "Slash", "Caret"}

(***************************************************************************)
(* Call frames.  fn is the function, at the place in it, prec the          *)
(* operation_precedence argument of ast, left the operand built so far,    *)
(* op the Node variant operation() is building.                            *)
(***************************************************************************)
Frame(fn, at, prec, left, op) == [fn |-> fn, at |-> at, prec |-> prec, left |-> left, op |-> op]
AstFrame(prec) == Frame("ast", "start", prec, Nil, "")
NumberFrame == Frame("number", "start", Default, Nil, "")
OperationFrame(left) == Frame("operation", "start", Default, left, "")

Top == stack[Len(stack)]
Below == SubSeq(stack, 1, Len(stack) - 1)
At(fn, at) == pc = "running" /\ stack # <<>> /\ Top.fn = fn /\ Top.at = at /\ steps < MaxSteps

\* > in place of >=: an operator of the same precedence is taken by the inner call
AstBreaksStrict(prec, t) == prec > operation_precedence(t)

\* the loop of ast stops in front of a token of no higher precedence
AstBreaks(prec, t) == prec >= operation_precedence(t)

\* the end of the input taken for a closing parenthesis
ClosesParenthesisOrEnd(t) == t.kind \in {"RightParenthesis", "EOF"}

\* the token that must follow a parenthesised expression
ClosesParenthesis(t) == t = Tok("RightParenthesis")

(***************************************************************************)
(* The inputs.  A session is a client that calls Parser::new(s).parse()    *)
(* up to three times: first on any base input, then on an input built      *)
(* around the first one.                                                   *)
(***************************************************************************)
Alphabet == {"1", ".", "+", "-", "*", "/", "^", "(", ")", "$"}
Strings == UNION {[1..k -> Alphabet] : k \in 0..MaxLen}

\* inputs with whitespace, as the lines read from a terminal are
SpacedAlphabet == {"1", "+", " ", "\n"}
SpacedStrings == UNION {[1..k -> SpacedAlphabet] : k \in 0..MaxLen}

LiteralAlphabet == {"1", "2", "3", "."}
Literals == UNION {{<<"1">> \o t : t \in [1..k -> LiteralAlphabet]} : k \in 0..(MaxLiteralLen - 1)}

BinaryOperators == {<<"+">>, <<"-">>, <<"*">>, <<"/">>, <<"^">>}
Digit(i) == <<CASE i % 4 = 1 -> "1" [] i % 4 = 2 -> "2" [] i % 4 = 3 -> "3" [] OTHER -> "4">>

\* d1 op d2 op ... dn, every operand a digit
RECURSIVE PlainChains(_)
PlainChains(n) ==
    IF n = 1 THEN {Digit(1)}
    ELSE {c \o j \o Digit(n) : c \in PlainChains(n - 1), j \in BinaryOperators}

\* chains with operands in parentheses and operands set side by side
Joiners == BinaryOperators \cup {<<>>}

RECURSIVE MixedChains(_)
MixedChains(n) ==
    IF n = 1 THEN {Digit(1), <<"(">> \o Digit(1) \o <<")">>}
    ELSE {c \o j \o o : c \in MixedChains(n - 1), j \in Joiners,
                        o \in {Digit(n), <<"(">> \o Digit(n) \o <<")">>}}

Base ==
    Strings \cup SpacedStrings \cup Literals
    \cup UNION {PlainChains(n) : n \in 1..(MaxOperands + 1)}
    \cup UNION {MixedChains(n) : n \in 1..MaxOperands}

\* a call that returned a tree with the whole input read
WellFormed(h) == h.result.kind = "Ok" /\ h.ahead = <<EOF>>

Paren(e) == <<"(">> \o e \o <<")">>
Leads == {<<"1">>, <<"(", "2", ")">>}
Seconds == {<<"2">>, <<"1", "+", "2">>}

\* the places of e where a "(" follows an operand
StarPlaces(e) == {i \in 2..Len(e) : e[i] = "(" /\ e[i - 1] \in AsciiDigits \cup {")", "."}}
InsertStar(e, i) == SubSeq(e, 1, i - 1) \o <<"*">> \o SubSeq(e, i, Len(e))

Derived(e) ==
    {Paren(e), <<"(">> \o e, e \o <<")">>, Paren(e) \o Digit(2)}
    \cup {a \o <<"(">> \o e : a \in Leads}
    \cup {InsertStar(e, i) : i \in StarPlaces(e)}

NextInputs(h) ==
    CASE Len(h) = 0 -> Base
      [] Len(h) = 1 /\ WellFormed(h[1]) -> Derived(h[1].input) \cup Seconds
      [] Len(h) = 2 /\ WellFormed(h[1]) /\ WellFormed(h[2]) /\ h[2].input \in Seconds ->
            {Paren(h[1].input) \o Paren(h[2].input),
             Paren(h[1].input) \o <<"*">> \o Paren(h[2].input)}
      [] OTHER -> {}

(***************************************************************************)
(* The state after construction, and the pieces every action is made of.   *)
(***************************************************************************)
Init ==
    /\ input = <<>> /\ chars = <<>> /\ peeked = <<>>
    /\ stack = <<>> /\ ret = <<>> /\ pc = "idle" /\ steps = 0
    /\ hist = <<>> /\ reads = <<>>

\* the callee's frame goes on top, the caller waits at `at`
Call(at, frame) ==
    /\ stack' = Below \o <<[Top EXCEPT !.at = at], frame>>
    /\ ret' = <<>>
    /\ pc' = pc

Return(result) ==
    /\ stack' = Below
    /\ ret' = <<result>>
    /\ pc' = pc

\* the ? operator on an Err: the caller returns the callee's error
Propagate == Return(ret[1])

\* unwrap() on Err(ParseFloatError) in Tokenizer::token
Abort == pc' = "panic" /\ UNCHANGED <<stack, ret>>

\* Parser::new and the entry of parse(): self.ast(OperationPrecedence::Default)
NewCall ==
    /\ pc = "idle"
    /\ \E s \in NextInputs(hist) :
        /\ input' = s
        /\ chars' = Filter(s)
    /\ peeked' = <<>>
    /\ stack' = <<AstFrame(Default)>>
    /\ ret' = <<>>
    /\ pc' = "running"
    /\ steps' = 0
    /\ UNCHANGED <<hist, reads>>

\* parse() returns to the client
ParseReturn ==
    /\ pc = "running" /\ stack = <<>> /\ ret # <<>>
    /\ hist' = Append(hist, [input |-> input, result |-> ret[1], ahead |-> peeked])
    /\ pc' = "idle"
    /\ ret' = <<>>
    /\ UNCHANGED <<input, chars, peeked, stack, steps, reads>>

(***************************************************************************)
(* Parser::ast                                                             *)
(***************************************************************************)
\* let mut left = self.number()?;   (the call)
AstStart ==
    /\ At("ast", "start")
    /\ Call("number", NumberFrame)
    /\ steps' = steps + 1
    /\ UNCHANGED <<input, chars, peeked, hist, reads>>

\* let mut left = self.number()?;   (the return)
AstNumber ==
    /\ At("ast", "number")
    /\ IF ret[1].kind = "Err" THEN Propagate
       ELSE /\ stack' = Below \o <<[Top EXCEPT !.at = "loop", !.left = ret[1].node]>>
            /\ ret' = <<>>
            /\ pc' = pc
    /\ steps' = steps + 1
    /\ UNCHANGED <<input, chars, peeked, hist, reads>>

\* one turn of the loop: match self.tokenizer.peek()
AstLoop ==
    /\ At("ast", "loop")
    /\ LET r == PeekablePeek(chars, peeked) IN
        /\ chars' = r.chars
        /\ peeked' = r.peeked
        /\ CASE r.tok = Panic -> Abort
             [] r.tok = EOF -> Return(Ok(Top.left))
             [] r.tok = None -> Return(Err("UnableToParse", <<"Unknown char">>))
             [] OTHER ->
                  IF AstBreaks(Top.prec, r.tok) THEN Return(Ok(Top.left))
                  ELSE Call("operation", OperationFrame(Top.left))
    /\ steps' = steps + 1
    /\ UNCHANGED <<input, hist, reads>>

\* left = self.operation(left)?;   (the return)
AstOperation ==
    /\ At("ast", "operation")
    /\ IF ret[1].kind = "Err" THEN Propagate
       ELSE /\ stack' = Below \o <<[Top EXCEPT !.at = "loop", !.left = ret[1].node]>>
            /\ ret' = <<>>
            /\ pc' = pc
    /\ steps' = steps + 1
    /\ UNCHANGED <<input, chars, peeked, hist, reads>>

(***************************************************************************)
(* Parser::number                                                          *)
(***************************************************************************)
\* self.tokenizer.next().ok_or(..)? and the match up to the first call
NumberStart ==
    /\ At("number", "start")
    /\ LET r == PeekableNext(chars, peeked) IN
        /\ chars' = r.chars
        /\ peeked' = r.peeked
        /\ CASE r.tok = Panic -> Abort
             [] r.tok = None -> Return(Err("UnableToParse", <<"Number parse error">>))
             [] r.tok.kind = "Plus" -> Call("plus", NumberFrame)
             [] r.tok.kind = "Minus" -> Call("minus", NumberFrame)
             [] r.tok.kind = "Number" -> Return(Ok(Element(r.tok.value)))
             [] r.tok.kind = "LeftParenthesis" -> Call("paren", AstFrame(Default))
             [] OTHER -> Return(Err("InvalidNumber", Debug(r.tok)))
    /\ steps' = steps + 1
    /\ UNCHANGED <<input, hist, reads>>

\* Token::Plus => self.number()?
NumberPlus ==
    /\ At("number", "plus")
    /\ IF ret[1].kind = "Err" THEN Propagate ELSE Return(ret[1])
    /\ steps' = steps + 1
    /\ UNCHANGED <<input, chars, peeked, hist, reads>>

\* Token::Minus => Node::Negative(Box::new(self.number()?))
NumberMinus ==
    /\ At("number", "minus")
    /\ IF ret[1].kind = "Err" THEN Propagate ELSE Return(Ok(Negative(ret[1].node)))
    /\ steps' = steps + 1
    /\ UNCHANGED <<input, chars, peeked, hist, reads>>

\* Token::LeftParenthesis: after self.ast(Default)? the next token must close
NumberParen ==
    /\ At("number", "paren")
    /\ IF ret[1].kind = "Err"
       THEN Propagate /\ UNCHANGED <<chars, peeked>>
       ELSE LET r == PeekableNext(chars, peeked) IN
            /\ chars' = r.chars
            /\ peeked' = r.peeked
            /\ CASE r.tok = Panic -> Abort
                 [] ClosesParenthesis(r.tok) -> Return(Ok(ret[1].node))
                 [] OTHER -> Return(ParenthesisNotBalanced)
    /\ steps' = steps + 1
    /\ UNCHANGED <<input, hist, reads>>

(***************************************************************************)
(* Parser::operation                                                       *)
(***************************************************************************)
\* self.tokenizer.next().ok_or(..)? and the match up to the call of ast
OperationStart ==
    /\ At("operation", "start")
    /\ LET r == PeekableNext(chars, peeked) IN
        /\ chars' = r.chars
        /\ peeked' = r.peeked
        /\ CASE r.tok = Panic -> Abort
             [] r.tok = None -> Return(Err("UnableToParse", <<"Operator parse error">>))
             [] r.tok.kind \in BinaryTokens ->
                  /\ stack' = Below \o <<[Top EXCEPT !.at = "right", !.op = NodeOf(r.tok)],
                                         AstFrame(operation_precedence(r.tok))>>
                  /\ ret' = <<>>
                  /\ pc' = pc
             [] r.tok.kind = "LeftParenthesis" -> Call("paren", AstFrame(Default))
             [] OTHER -> Return(Err("InvalidOperator", Debug(r.tok)))
    /\ steps' = steps + 1
    /\ UNCHANGED <<input, hist, reads>>

\* let right = self.ast(operation_precedence)?; Node::Op(left, right)
OperationRight ==
    /\ At("operation", "right")
    /\ IF ret[1].kind = "Err" THEN Propagate
       ELSE Return(Ok(Binary(Top.op, Top.left, ret[1].node)))
    /\ steps' = steps + 1
    /\ UNCHANGED <<input, chars, peeked, hist, reads>>

\* Token::LeftParenthesis: implicit multiplication by the group that follows
OperationParen ==
    /\ At("operation", "paren")
    /\ IF ret[1].kind = "Err"
       THEN Propagate /\ UNCHANGED <<chars, peeked>>
       ELSE LET r == PeekableNext(chars, peeked) IN
            /\ chars' = r.chars
            /\ peeked' = r.peeked
            /\ CASE r.tok = Panic -> Abort
                 [] ClosesParenthesis(r.tok) -> Return(Ok(Binary("Multiply", Top.left, ret[1].node)))
                 [] OTHER -> Return(ParenthesisNotBalanced)
    /\ steps' = steps + 1
    /\ UNCHANGED <<input, hist, reads>>

Step ==
    \/ AstStart \/ AstNumber \/ AstLoop \/ AstOperation
    \/ NumberStart \/ NumberPlus \/ NumberMinus \/ NumberParen
    \/ OperationStart \/ OperationRight \/ OperationParen
    \/ ParseReturn

Next == NewCall \/ Step

Spec == Init /\ [][Next]_vars

\* One call: the parser is sequential code, a piece that can run does run
FirstCall == hist = <<>> /\ NewCall
OneCall == FirstCall \/ Step
FairSpec == Init /\ [][OneCall]_vars /\ WF_vars(Step)

(***************************************************************************)
(* A direct client of the tokenizer, as the tests of token.rs are: it      *)
(* builds Tokenizer::new(s).peekable() and reads it with next() and peek() *)
(***************************************************************************)
TokInit ==
    /\ input \in Strings \cup SpacedStrings
    /\ chars = Filter(input) /\ peeked = <<>>
    /\ stack = <<>> /\ ret = <<>> /\ pc = "tokens" /\ steps = 0
    /\ hist = <<>> /\ reads = <<>>

TokenizerNext ==
    /\ pc = "tokens" /\ Len(reads) < MaxReads
    /\ LET r == PeekableNext(chars, peeked) IN
        /\ chars' = r.chars
        /\ peeked' = r.peeked
        /\ reads' = Append(reads, [call |-> "next", item |-> r.tok])
        /\ pc' = IF r.tok = Panic THEN "panic" ELSE pc
    /\ UNCHANGED <<input, stack, ret, steps, hist>>

TokenizerPeek ==
    /\ pc = "tokens" /\ Len(reads) < MaxReads
    /\ LET r == PeekablePeek(chars, peeked) IN
        /\ chars' = r.chars
        /\ peeked' = r.peeked
        /\ reads' = Append(reads, [call |-> "peek", item |-> r.tok])
        /\ pc' = IF r.tok = Panic THEN "panic" ELSE pc
    /\ UNCHANGED <<input, stack, ret, steps, hist>>

TokNext == TokenizerNext \/ TokenizerPeek

TokSpec == TokInit /\ [][TokNext]_vars

(***************************************************************************)
(* What the claims speak of.                                               *)
(***************************************************************************)
\* the tokens of an input, the end of input left out
RECURSIVE TokensOf(_)
TokensOf(cs) ==
    IF cs = <<>> THEN <<>>
    ELSE LET r == token(cs) IN <<r.tok>> \o TokensOf(r.rest)

\* the precedence level the specification gives a binary operator
Level(t) ==
    CASE t.kind \in {"Plus", "Minus"} -> 1
      [] t.kind \in {"Asterisk", "Slash"} -> 2
      [] t.kind = "Caret" -> 3

\* number op number op ... number
IsChain(ts) ==
    /\ Len(ts) % 2 = 1
    /\ \A i \in 1..Len(ts) :
         IF i % 2 = 1 THEN ts[i].kind = "Number" ELSE ts[i].kind \in BinaryTokens

OneLevel(ts) == \A i \in 1..Len(ts) : i % 2 = 0 => Level(ts[i]) = Level(ts[2])

RECURSIVE LeftNested(_)
LeftNested(ts) ==
    IF Len(ts) = 1 THEN Element(ts[1].value)
    ELSE Binary(NodeOf(ts[Len(ts) - 1]),
                LeftNested(SubSeq(ts, 1, Len(ts) - 2)),
                Element(ts[Len(ts)].value))

\* parse() has just returned: the call, its tokens, and the calls before it
Returned == pc = "idle" /\ hist # <<>>
Last == hist[Len(hist)]
LastTokens == TokensOf(Filter(Last.input))
Before == 1..(Len(hist) - 1)

\* C1: a chain of three or more number operands joined by binary operators of
\* one precedence level parses to the left-nested tree, for each of + - * / ^
C1_LeftAssociative ==
    (Returned /\ IsChain(LastTokens) /\ Len(LastTokens) >= 5 /\ OneLevel(LastTokens))
    => Last.result = Ok(LeftNested(LastTokens))

C1_Witness ==
    /\ Returned /\ IsChain(LastTokens) /\ Len(LastTokens) >= 7 /\ OneLevel(LastTokens)
    /\ LastTokens[2].kind = "Caret"
    /\ Last.result.kind = "Ok"

\* C2: in a lo b hi c and in a hi b lo c, lo of strictly lower precedence than
\* hi, the operator hi binds its two neighbours and lo is the root
C2_Precedence ==
    LET ts == LastTokens
        a == Element(ts[1].value)
        b == Element(ts[3].value)
        c == Element(ts[5].value)
    IN  (Returned /\ IsChain(ts) /\ Len(ts) = 5) =>
          /\ Level(ts[2]) < Level(ts[4]) =>
                Last.result = Ok(Binary(NodeOf(ts[2]), a, Binary(NodeOf(ts[4]), b, c)))
          /\ Level(ts[2]) > Level(ts[4]) =>
                Last.result = Ok(Binary(NodeOf(ts[4]), Binary(NodeOf(ts[2]), a, b), c))

C2_Witness ==
    /\ Returned /\ IsChain(LastTokens) /\ Len(LastTokens) = 5
    /\ LastTokens[2].kind = "Asterisk" /\ LastTokens[4].kind = "Caret"
    /\ Last.result.kind = "Ok"
    /\ Last.result.node[1] = "Multiply"
    /\ Last.result.node[3][1] = "Power"

\* C3: the items next() yields past the end of the characters: one EOF, and
\* after it nothing but None, whether read with next() or with peek()
C3_SingleEOF ==
    \A i, j \in 1..Len(reads) :
        (i < j /\ reads[i].call = "next" /\ reads[i].item = EOF) => reads[j].item = None

\* C4: no input aborts the process: every call ends in a tree (which eval()
\* reduces to a number) or in a ParseError, never in a panic
C4_NeverPanics == pc # "panic"

\* C5: a complete expression followed by a ")" that closes nothing, or a
\* parenthesised group followed by a number, fails with InvalidOperator
\* naming that token
C5_InvalidOperator ==
    Returned =>
      \A i \in Before :
        WellFormed(hist[i]) =>
          /\ Last.input = hist[i].input \o <<")">> =>
                Last.result = Err("InvalidOperator", <<"RightParenthesis">>)
          /\ Last.input = Paren(hist[i].input) \o Digit(2) =>
                Last.result = Err("InvalidOperator", <<"Number", [n |-> 2, e |-> 0]>>)

\* C6: for a well-formed E, the inputs "(E" and "A(E" (A an operand) fail
\* with ParenthesisNotBalanced
C6_Unclosed ==
    Returned =>
      \A i \in Before :
        (/\ WellFormed(hist[i])
         /\ \/ Last.input = <<"(">> \o hist[i].input
            \/ \E a \in Leads : Last.input = a \o <<"(">> \o hist[i].input)
        => Last.result = ParenthesisNotBalanced

C6_Witness ==
    /\ Returned
    /\ \E i \in Before :
        /\ WellFormed(hist[i])
        /\ Len(hist[i].input) >= 3
        /\ Last.input = <<"(", "2", ")", "(">> \o hist[i].input
        /\ Last.result = ParenthesisNotBalanced

\* C7: for a well-formed E, "(E)" parses to the tree of E
C7_ParenthesesTransparent ==
    Returned =>
      \A i \in Before :
        (WellFormed(hist[i]) /\ Last.input = Paren(hist[i].input))
        => (Last.result = hist[i].result /\ WellFormed(Last))

C7_Witness ==
    /\ Returned
    /\ \E i \in Before :
        /\ WellFormed(hist[i])
        /\ hist[i].result.node[1] = "Sum"
        /\ Last.input = Paren(hist[i].input)
        /\ Last.result = hist[i].result

\* C8: for well-formed A and B, "(A)(B)" and "(A)*(B)" both parse to
\* Multiply(tree of A, tree of B)
C8_AdjacentGroupsMultiply ==
    (Returned /\ Len(hist) = 3 /\ WellFormed(hist[1]) /\ WellFormed(hist[2])
     /\ Last.input \in {Paren(hist[1].input) \o Paren(hist[2].input),
                        Paren(hist[1].input) \o <<"*">> \o Paren(hist[2].input)})
    => Last.result = Ok(Binary("Multiply", hist[1].result.node, hist[2].result.node))

C8_Witness ==
    /\ Returned /\ Len(hist) = 3 /\ WellFormed(hist[1]) /\ WellFormed(hist[2])
    /\ hist[1].result.node[1] = "Subtract"
    /\ hist[2].result.node[1] = "Sum"
    /\ Last.input = Paren(hist[1].input) \o Paren(hist[2].input)
    /\ Last.result.kind = "Ok"

\* an input the tokenizer turns into tokens to its end
RECURSIVE NoPanic(_)
NoPanic(cs) ==
    \/ cs = <<>>
    \/ LET r == token(cs) IN r.tok # Panic /\ NoPanic(r.rest)

Tokenizable(s) == NoPanic(Filter(s))

\* C9: every parse() call on an input that has a token sequence returns
C9_Terminates == (pc = "running" /\ Tokenizable(input)) ~> (pc = "idle")

C9_Witness ==
    /\ Returned
    /\ Len(Last.input) >= 2
    /\ Last.input[Len(Last.input)] = "$"
    /\ Last.result = Err("UnableToParse", <<"Unknown char">>)

\* C10: for a well-formed input, a "*" put between an operand and the "(" that
\* follows it leaves the tree as it was
C10_StarInterchangeable ==
    Returned =>
      \A i \in Before :
        (/\ WellFormed(hist[i])
         /\ \E k \in StarPlaces(hist[i].input) :
                Last.input = InsertStar(hist[i].input, k))
        => Last.result = hist[i].result

====
